---- MODULE Spec2Model ----
(***************************************************************************)
(* Rock-Paper-Scissors round tracker (src/data_management.py) and the      *)
(* orchestration layer that drives it (src/main.py).                       *)
(*                                                                         *)
(* A Python str is a sequence of one-character strings; Optional[str]      *)
(* None is the distinguished value None below.  A Python float produced    *)
(* by int / int is the fraction <<n, d>> in lowest terms: two such         *)
(* quotients are equal floats exactly when the fractions are equal.        *)
(***************************************************************************)
EXTENDS Integers, Sequences, FiniteSets, TLC

VARIABLES rounds, call, p_score, a_score, display

vars == <<rounds, call, p_score, a_score, display>>

-----------------------------------------------------------------------------
(* Bounds *)

MaxRounds == 3

MaxHintRounds == 2

MaxGameRounds == 5

MaxWords == 2

-----------------------------------------------------------------------------
(* Characters and strings *)

LowerLetters ==
  <<"a","b","c","d","e","f","g","h","i","j","k","l","m",
    "n","o","p","q","r","s","t","u","v","w","x","y","z">>

UpperLetters ==
  <<"A","B","C","D","E","F","G","H","I","J","K","L","M",
    "N","O","P","Q","R","S","T","U","V","W","X","Y","Z">>

Whitespace == {" ", "\t", "\n"}

IsLowerLetter(c) == \E i \in DOMAIN LowerLetters : LowerLetters[i] = c

IsUpperLetter(c) == \E i \in DOMAIN UpperLetters : UpperLetters[i] = c

UpperChar(c) ==
  IF IsLowerLetter(c)
    THEN UpperLetters[CHOOSE i \in DOMAIN LowerLetters : LowerLetters[i] = c]
    ELSE c

LowerChar(c) ==
  IF IsUpperLetter(c)
    THEN LowerLetters[CHOOSE i \in DOMAIN UpperLetters : UpperLetters[i] = c]
    ELSE c

\* str.upper()
upper(s) == [i \in DOMAIN s |-> UpperChar(s[i])]

\* str.lower()
lower(s) == [i \in DOMAIN s |-> LowerChar(s[i])]

\* str.strip(): drop leading and trailing whitespace
strip(s) ==
  LET keep == {i \in DOMAIN s : s[i] \notin Whitespace}
  IN IF keep = {} THEN <<>>
     ELSE LET lo == CHOOSE i \in keep : \A j \in keep : i <= j
              hi == CHOOSE i \in keep : \A j \in keep : j <= i
          IN SubSeq(s, lo, hi)

\* re.sub(r"[^a-z ]", "", r): keep lower-case letters and spaces only
RECURSIVE re_sub_clean(_)
re_sub_clean(s) ==
  IF s = <<>> THEN <<>>
  ELSE IF IsLowerLetter(Head(s)) \/ Head(s) = " "
         THEN <<Head(s)>> \o re_sub_clean(Tail(s))
         ELSE re_sub_clean(Tail(s))

\* sub in s
In(sub, s) ==
  \E i \in 0..(Len(s) - Len(sub)) : SubSeq(s, i + 1, i + Len(sub)) = sub

None == <<"None">>

R == <<"R">>

P == <<"P">>

S == <<"S">>

MOVE_SET == {R, P, S}

PLAYER == "player"

AI == "ai"

TIE == "tie"

-----------------------------------------------------------------------------
(* Keyword literals of _normalize_result_string *)

kw_player == <<"p","l","a","y","e","r">>

kw_p == <<"p">>

kw_you == <<"y","o","u">>

kw_win == <<"w","i","n">>

kw_player_wins == <<"p","l","a","y","e","r"," ","w","i","n","s">>

kw_you_win == <<"y","o","u"," ","w","i","n">>

kw_ai == <<"a","i">>

kw_lose == <<"l","o","s","e">>

kw_a == <<"a">>

kw_computer == <<"c","o","m","p","u","t","e","r">>

kw_ai_wins == <<"a","i"," ","w","i","n","s">>

-----------------------------------------------------------------------------
(* DataManager: pure helpers *)

\* DataManager._infer_result
_infer_result_swapped(player, ai) ==
  IF player = ai THEN TIE
  ELSE LET beats == [m \in MOVE_SET |->
                       IF m = R THEN P ELSE IF m = P THEN S ELSE R]
       IN IF beats[player] = ai THEN PLAYER ELSE AI

_infer_result(player, ai) ==
  IF player = ai THEN TIE
  ELSE LET beats == [m \in MOVE_SET |->
                       IF m = R THEN S ELSE IF m = P THEN R ELSE P]
       IN IF beats[player] = ai THEN PLAYER ELSE AI

\* the "player indicators" condition
PlayerIndicatorsNoExclusion(r_clean) ==
  \/ In(kw_player, r_clean)
  \/ r_clean = kw_p
  \/ (In(kw_you, r_clean) /\ In(kw_win, r_clean))
  \/ In(kw_player_wins, r_clean)
  \/ In(kw_you_win, r_clean)
  \/ In(kw_win, r_clean)

PlayerIndicators(r_clean) ==
  \/ In(kw_player, r_clean)
  \/ r_clean = kw_p
  \/ (In(kw_you, r_clean) /\ In(kw_win, r_clean))
  \/ In(kw_player_wins, r_clean)
  \/ In(kw_you_win, r_clean)
  \/ (In(kw_win, r_clean) /\ ~In(kw_ai, r_clean) /\ ~In(kw_lose, r_clean))

\* the "ai indicators" condition
AiIndicators(r_clean) ==
  \/ In(kw_ai, r_clean)
  \/ r_clean = kw_a
  \/ In(kw_computer, r_clean)
  \/ (In(kw_you, r_clean) /\ In(kw_lose, r_clean))
  \/ In(kw_ai_wins, r_clean)

\* the cleaned text the classifier inspects
Clean(result) == re_sub_clean(lower(strip(result)))

\* DataManager._normalize_result_string
_normalize_result_string_ai_first(result) ==
  LET r_clean == Clean(result)
  IN IF AiIndicators(r_clean) THEN AI
     ELSE IF PlayerIndicators(r_clean) THEN PLAYER
     ELSE TIE

_normalize_result_string(result) ==
  LET r_clean == Clean(result)
  IN IF PlayerIndicators(r_clean) THEN PLAYER
     ELSE IF AiIndicators(r_clean) THEN AI
     ELSE TIE

\* the result strings the callers of record_round pass
result_you_win2 == <<"Y","o","u"," ","w","i","n","!","!">>

result_tie == <<"I","t","'","s"," ","a"," ","T","i","e","!">>

result_you_win == <<"Y","o","u"," ","W","i","n","!">>

result_ai_wins == <<"A","I"," ","W","i","n","s","!">>

\* _normalize_result_string on those strings, evaluated once
NormalizedResults ==
  [h \in {result_you_win2, result_tie, result_you_win, result_ai_wins} |->
     _normalize_result_string(h)]

\* the outcome record_round stores: inferred without a hint, classified with one
ResultNormIgnoringHint(player_move, ai_move, result) ==
  _infer_result(player_move, ai_move)

ResultNorm(player_move, ai_move, result) ==
  IF result = None
    THEN _infer_result(player_move, ai_move)
    ELSE IF result \in DOMAIN NormalizedResults
           THEN NormalizedResults[result]
           ELSE _normalize_result_string(result)

\* number of rounds of the log with the given outcome
CountRes(rs, v) == Cardinality({i \in DOMAIN rs : rs[i][3] = v})

\* DataManager.counts
CountsOfTypo(rs) == <<CountRes(rs, PLAYER), CountRes(rs, AI), CountRes(rs, "draw")>>

CountsOf(rs) == <<CountRes(rs, PLAYER), CountRes(rs, AI), CountRes(rs, TIE)>>

-----------------------------------------------------------------------------
(* Floats *)

RECURSIVE GCD(_, _)
GCD(m, n) == IF n = 0 THEN m ELSE GCD(n, m % n)

\* the marker for a division that raises ZeroDivisionError
ZeroDivision == <<0, 0>>

\* the float 0.0
Zero == <<0, 1>>

\* n / d on ints
TrueDiv(n, d) ==
  IF d = 0 THEN ZeroDivision
  ELSE LET g == GCD(n, d) IN <<n \div g, d \div g>>

\* the running tallies <<p, a, t>> after one more round with outcome res
TallyTieAsPlayer(c, res) ==
  IF res = PLAYER \/ res = TIE THEN <<c[1] + 1, c[2], c[3]>>
  ELSE <<c[1], c[2] + 1, c[3]>>

Tally(c, res) ==
  IF res = PLAYER THEN <<c[1] + 1, c[2], c[3]>>
  ELSE IF res = AI THEN <<c[1], c[2] + 1, c[3]>>
  ELSE <<c[1], c[2], c[3] + 1>>

\* (n / denom) if denom > 0 else 0.0
ExcludeTiesRateUnguarded(n, denom) == TrueDiv(n, denom)

ExcludeTiesRate(n, denom) == IF denom > 0 THEN TrueDiv(n, denom) ELSE Zero

\* one history entry for side count n after round i (counted from 1), tallies c
RateFromZero(n, c, i, exclude_ties) ==
  IF exclude_ties THEN ExcludeTiesRate(n, c[1] + c[2]) ELSE TrueDiv(n, i - 1)

Rate(n, c, i, exclude_ties) ==
  IF exclude_ties THEN ExcludeTiesRate(n, c[1] + c[2]) ELSE TrueDiv(n, i)

\* the loop of win_rate_history from round i on
RECURSIVE WinRateLoop(_, _, _, _, _)
WinRateLoop(rs, i, c, history, exclude_ties) ==
  IF i > Len(rs) THEN [raised |-> "", ret |-> history]
  ELSE LET c1 == Tally(c, rs[i][3])
           e  == Rate(c1[1], c1, i, exclude_ties)
       IN IF e = ZeroDivision
            THEN [raised |-> "ZeroDivisionError", ret |-> <<>>]
            ELSE WinRateLoop(rs, i + 1, c1, Append(history, e), exclude_ties)

\* DataManager.win_rate_history
win_rate_history(rs, exclude_ties) ==
  WinRateLoop(rs, 1, <<0, 0, 0>>, <<>>, exclude_ties)

\* the loop of plot_win_rate computing hist_a and hist_d from round i on
RECURSIVE PlotLoop(_, _, _, _, _, _)
PlotLoop(rs, i, c, hist_a, hist_d, exclude_ties) ==
  IF i > Len(rs) THEN [raised |-> "", hist_a |-> hist_a, hist_d |-> hist_d]
  ELSE LET c1 == Tally(c, rs[i][3])
           hist_p_val == Rate(c1[1], c1, i, exclude_ties)
           hist_a_val == Rate(c1[2], c1, i, exclude_ties)
           d == TrueDiv(c1[3], i)
       IN IF ZeroDivision \in {hist_p_val, hist_a_val, d}
            THEN [raised |-> "ZeroDivisionError", hist_a |-> <<>>, hist_d |-> <<>>]
            ELSE PlotLoop(rs, i + 1, c1, Append(hist_a, hist_a_val),
                          Append(hist_d, d), exclude_ties)

\* DataManager.plot_win_rate: the three series it plots
plot_win_rate(rs, exclude_ties) ==
  LET hp == win_rate_history(rs, exclude_ties)
      lp == PlotLoop(rs, 1, <<0, 0, 0>>, <<>>, <<>>, exclude_ties)
  IN IF hp.raised # "" THEN [raised |-> hp.raised, ret |-> <<>>]
     ELSE IF lp.raised # "" THEN [raised |-> lp.raised, ret |-> <<>>]
     ELSE [raised |-> "",
           ret |-> [hist_p |-> hp.ret, hist_a |-> lp.hist_a, hist_d |-> lp.hist_d]]

-----------------------------------------------------------------------------
(* DataManager: operations on the log *)

\* the move check of record_round, on the upper-cased moves
ValidMovesPlayerOnly(player_move, ai_move) == player_move \in MOVE_SET

ValidMoves(player_move, ai_move) ==
  ~(player_move \notin MOVE_SET \/ ai_move \notin MOVE_SET)

\* self.rounds.append(...)
AppendRoundInFront(rs, round) == <<round>> \o rs

AppendRound(rs, round) == Append(rs, round)

\* DataManager.record_round: the exception raised ("" for none) and the log after
RecordRound(rs, player_move, ai_move, result) ==
  LET pm == upper(player_move)
      am == upper(ai_move)
  IN IF ~ValidMoves(pm, am)
       THEN [raised |-> "ValueError", rounds |-> rs]
       ELSE [raised |-> "",
             rounds |-> AppendRound(rs, <<pm, am, ResultNorm(pm, am, result)>>)]

-----------------------------------------------------------------------------
(* Inputs *)

MoveInputs == {R, P, S, <<"s">>, <<"X">>}

HintInputs == {None, result_you_win2}

\* the buttons of the window
Buttons == {R, P, S}

\* the classifier's own keywords and two other words
Vocabulary ==
  {kw_player, kw_p, kw_you, kw_win, kw_player_wins, kw_you_win, kw_ai,
   kw_lose, kw_a, kw_computer, kw_ai_wins,
   <<"t","i","e">>, <<"a","g","a","i","n">>}

RECURSIVE Join(_)
Join(ws) ==
  IF Len(ws) = 1 THEN ws[1] ELSE ws[1] \o <<" ">> \o Join(Tail(ws))

Decorate(s) == <<" ", UpperChar(s[1])>> \o Tail(s) \o <<"!">>

Phrases == {Join(ws) : ws \in UNION {[1..n -> Vocabulary] : n \in 1..MaxWords}}

ClassifierInputs == Phrases \cup {Decorate(s) : s \in Phrases}

-----------------------------------------------------------------------------
(* State machine of the tracker *)

NoCall == [op |-> "none", args |-> <<>>, raised |-> "", ret |-> <<>>]

NoDisplay == [shown |-> FALSE]

Init ==
  /\ rounds = <<>>
  /\ call = NoCall
  /\ p_score = 0
  /\ a_score = 0
  /\ display = NoDisplay

record_round(player_move, ai_move, result) ==
  LET out == RecordRound(rounds, player_move, ai_move, result)
  IN /\ rounds' = out.rounds
     /\ call' = [op |-> "record_round",
                 args |-> <<player_move, ai_move, result>>,
                 raised |-> out.raised,
                 ret |-> None]
     /\ UNCHANGED <<p_score, a_score, display>>

counts ==
  /\ call' = [op |-> "counts", args |-> <<>>, raised |-> "",
              ret |-> CountsOf(rounds)]
  /\ UNCHANGED <<rounds, p_score, a_score, display>>

WinRateHistory(exclude_ties) ==
  LET out == win_rate_history(rounds, exclude_ties)
  IN /\ call' = [op |-> "win_rate_history", args |-> <<exclude_ties>>,
                 raised |-> out.raised, ret |-> out.ret]
     /\ UNCHANGED <<rounds, p_score, a_score, display>>

PlotWinRate(exclude_ties) ==
  LET out == plot_win_rate(rounds, exclude_ties)
  IN /\ call' = [op |-> "plot_win_rate", args |-> <<exclude_ties>>,
                 raised |-> out.raised, ret |-> out.ret]
     /\ UNCHANGED <<rounds, p_score, a_score, display>>

\* record_round with or without a result hint, and the queries
Next ==
  \/ \E pm \in MoveInputs, am \in MoveInputs, h \in HintInputs :
       record_round(pm, am, h) /\ Len(rounds') <= MaxHintRounds
  \/ counts
  \/ \E ex \in BOOLEAN : WinRateHistory(ex)
  \/ \E ex \in BOOLEAN : PlotWinRate(ex)

Spec == Init /\ [][Next]_vars

\* record_round(player_move, ai_move) as the smoke test calls it, and the queries
NextNoHint ==
  \/ \E pm \in MoveInputs, am \in MoveInputs :
       record_round(pm, am, None) /\ Len(rounds') <= MaxRounds
  \/ counts
  \/ \E ex \in BOOLEAN : WinRateHistory(ex)
  \/ \E ex \in BOOLEAN : PlotWinRate(ex)

SpecNoHint == Init /\ [][NextNoHint]_vars

-----------------------------------------------------------------------------
(* State machine of the orchestration layer (main.py) *)

\* the result string and the score increments of one round
GameResult(user_move, ai_move) ==
  IF user_move = ai_move
    THEN [result |-> result_tie, dp |-> 0, da |-> 0]
  ELSE IF \/ (user_move = R /\ ai_move = S)
          \/ (user_move = S /\ ai_move = P)
          \/ (user_move = P /\ ai_move = R)
    THEN [result |-> result_you_win, dp |-> 1, da |-> 0]
    ELSE [result |-> result_ai_wins, dp |-> 0, da |-> 1]

handle_game_round(user_move) ==
  LET ai_move == P
      g == GameResult(user_move, ai_move)
      out == RecordRound(rounds, user_move, ai_move, g.result)
      plot == plot_win_rate(out.rounds, FALSE)
  IN /\ Len(out.rounds) <= MaxGameRounds
     /\ p_score' = p_score + g.dp
     /\ a_score' = a_score + g.da
     /\ rounds' = out.rounds
     /\ IF out.raised # ""
          THEN /\ call' = [op |-> "record_round",
                           args |-> <<user_move, ai_move, g.result>>,
                           raised |-> out.raised, ret |-> None]
               /\ UNCHANGED display
          ELSE /\ display' = [shown |-> TRUE, player_move |-> user_move,
                              ai_move |-> ai_move, result |-> g.result,
                              p_score |-> p_score', a_score |-> a_score']
               /\ call' = [op |-> "plot_win_rate", args |-> <<FALSE>>,
                           raised |-> plot.raised, ret |-> plot.ret]

NextMain == \E m \in Buttons : handle_game_round(m)

SpecMain == Init /\ [][NextMain]_vars

-----------------------------------------------------------------------------
(* The classifier on its own *)

Pending == "pending"

InitClassify ==
  /\ rounds = <<>>
  /\ p_score = 0
  /\ a_score = 0
  /\ display = NoDisplay
  /\ \E h \in ClassifierInputs :
       call = [op |-> "_normalize_result_string", args |-> <<h>>,
               raised |-> "", ret |-> Pending]

Classify ==
  /\ call.op = "_normalize_result_string"
  /\ call.ret = Pending
  /\ call' = [call EXCEPT !.ret = _normalize_result_string(call.args[1])]
  /\ UNCHANGED <<rounds, p_score, a_score, display>>

NextClassify == Classify

SpecClassify == InitClassify /\ [][NextClassify]_vars

-----------------------------------------------------------------------------
(* Vocabulary of the properties, stated apart from the code's loops *)

Last(s) == s[Len(s)]

\* the rounds among the first i whose outcome is v
PrefixCount(rs, i, v) == Cardinality({j \in 1..i : rs[j][3] = v})

\* the float f is the quotient n / d
IsQuotient(f, n, d) == d > 0 /\ f[2] > 0 /\ f[1] * d = n * f[2]

InUnitInterval(f) == f[2] > 0 /\ 0 <= f[1] /\ f[1] <= f[2]

\* Rock beats Scissors, Paper beats Rock, Scissors beats Paper
BeatsTable == {<<R, S>>, <<P, R>>, <<S, P>>}

RuleOutcome(player, opponent) ==
  IF player = opponent THEN TIE
  ELSE IF <<player, opponent>> \in BeatsTable THEN PLAYER
  ELSE AI

\* the move is, after case folding, one of r, p, s
FoldsToMove(m) == lower(m) \in {<<"r">>, <<"p">>, <<"s">>}

Recorded == call.op = "record_round" /\ call.raised = ""

-----------------------------------------------------------------------------
(* Properties *)

\* C1: counts() returns three non-negative integers (player wins, opponent
\* wins, ties) whose sum is the number of rounds in the log, whatever calls
\* of record_round (hinted or not, failing or not) came before.
C1_CountsSumToRounds ==
  call.op = "counts" =>
    /\ call.ret \in Nat \X Nat \X Nat
    /\ call.ret[1] + call.ret[2] + call.ret[3] = Len(rounds)
    /\ call.ret[1] = PrefixCount(rounds, Len(rounds), PLAYER)
    /\ call.ret[2] = PrefixCount(rounds, Len(rounds), AI)

C1_Witness ==
  /\ call.op = "counts"
  /\ Len(rounds) = MaxHintRounds
  /\ call.ret[1] > 0
  /\ call.ret[2] + call.ret[3] > 0

\* C2: record_round on a pair of valid moves with no result hint appends a
\* round whose outcome is Tie for equal moves, PlayerWin when the player's
\* move beats the opponent's, and OpponentWin otherwise.
C2_InferredOutcomeFollowsRules ==
  [][(/\ call'.op = "record_round"
      /\ call'.args[1] \in MOVE_SET
      /\ call'.args[2] \in MOVE_SET
      /\ call'.args[3] = None)
     => /\ call'.raised = ""
        /\ rounds' = Append(rounds,
                            <<call'.args[1], call'.args[2],
                              RuleOutcome(call'.args[1], call'.args[2])>>)]_vars

C2_Witness ==
  /\ Recorded
  /\ call.args = <<S, P, None>>
  /\ Len(rounds) = MaxRounds
  /\ Last(rounds) = <<S, P, PLAYER>>

\* C3: a record_round call whose player move or opponent move is, after
\* case folding, not one of R, P, S raises the validation error (ValueError
\* in the code) and leaves the log unchanged, with or without a result hint.
C3_InvalidMoveRejected ==
  [][(/\ call'.op = "record_round"
      /\ (~FoldsToMove(call'.args[1]) \/ ~FoldsToMove(call'.args[2])))
     => /\ call'.raised = "ValueError"
        /\ rounds' = rounds]_vars

C3_Witness ==
  /\ call.op = "record_round"
  /\ call.raised = "ValueError"
  /\ call.args[3] # None
  /\ FoldsToMove(call.args[1])
  /\ Len(rounds) > 0

\* C4: with ties included the win-rate history has one entry per round and
\* its i-th entry is (PlayerWin rounds among the first i) / i; recording
\* (R,S), (P,P), (S,R) without hints gives outcomes PlayerWin, Tie,
\* OpponentWin, counts (1,1,1) and player rates 1, 1/2, 1/3.
C4_TieInclusiveRates ==
  /\ (call.op = "win_rate_history" /\ call.args = <<FALSE>>) =>
       /\ call.raised = ""
       /\ Len(call.ret) = Len(rounds)
       /\ \A i \in 1..Len(rounds) :
            IsQuotient(call.ret[i], PrefixCount(rounds, i, PLAYER), i)
  /\ (/\ Len(rounds) = 3
      /\ \A i \in 1..3 : <<rounds[i][1], rounds[i][2]>> = <<<<R, S>>, <<P, P>>, <<S, R>>>>[i])
     => /\ rounds = <<<<R, S, PLAYER>>, <<P, P, TIE>>, <<S, R, AI>>>>
        /\ call.op = "counts" => call.ret = <<1, 1, 1>>
        /\ (call.op = "win_rate_history" /\ call.args = <<FALSE>>) =>
             call.ret = <<<<1, 1>>, <<1, 2>>, <<1, 3>>>>

C4_Witness ==
  /\ call.op = "win_rate_history"
  /\ call.args = <<FALSE>>
  /\ rounds = <<<<R, S, PLAYER>>, <<P, P, TIE>>, <<S, R, AI>>>>
  /\ call.ret = <<<<1, 1>>, <<1, 2>>, <<1, 3>>>>

\* C5: with ties excluded, the i-th entry of a side's rate history is 0 when
\* the first i rounds hold no decisive round, and otherwise the side's wins
\* among the first i rounds over the decisive rounds among them; no query
\* raises a division by zero.
C5_TieExclusiveRates ==
  /\ call.raised # "ZeroDivisionError"
  /\ (call.op = "win_rate_history" /\ call.args = <<TRUE>>) =>
       /\ Len(call.ret) = Len(rounds)
       /\ \A i \in 1..Len(rounds) :
            LET pw == PrefixCount(rounds, i, PLAYER)
                aw == PrefixCount(rounds, i, AI)
            IN IF pw + aw = 0 THEN call.ret[i] = Zero
               ELSE IsQuotient(call.ret[i], pw, pw + aw)
  /\ (call.op = "plot_win_rate" /\ call.args = <<TRUE>>) =>
       /\ Len(call.ret.hist_p) = Len(rounds)
       /\ Len(call.ret.hist_a) = Len(rounds)
       /\ \A i \in 1..Len(rounds) :
            LET pw == PrefixCount(rounds, i, PLAYER)
                aw == PrefixCount(rounds, i, AI)
            IN IF pw + aw = 0
                 THEN call.ret.hist_p[i] = Zero /\ call.ret.hist_a[i] = Zero
                 ELSE /\ IsQuotient(call.ret.hist_p[i], pw, pw + aw)
                      /\ IsQuotient(call.ret.hist_a[i], aw, pw + aw)

C5_Witness ==
  /\ call.op = "plot_win_rate"
  /\ call.args = <<TRUE>>
  /\ call.raised = ""
  /\ Len(rounds) = 3
  /\ rounds[1][3] = TIE
  /\ rounds[2][3] = TIE
  /\ rounds[3][3] = AI
  /\ call.ret.hist_p = <<Zero, Zero, Zero>>
  /\ call.ret.hist_a = <<Zero, Zero, <<1, 1>>>>

\* C6: with a result hint, the recorded outcome is the classifier's result
\* for the hint alone, whatever the two moves; (R,P) with hint "You win!!"
\* stores PlayerWin although the game rule gives OpponentWin.
C6_HintOverridesRule ==
  (Recorded /\ call.args[3] # None) =>
    /\ Len(rounds) > 0
    /\ Last(rounds)[3] = _normalize_result_string(call.args[3])
    /\ call.args[3] = result_you_win2 => Last(rounds)[3] = PLAYER
    /\ call.args = <<R, P, result_you_win2>> =>
         /\ Last(rounds) = <<R, P, PLAYER>>
         /\ RuleOutcome(R, P) = AI

C6_Witness ==
  /\ Recorded
  /\ call.args = <<R, P, result_you_win2>>
  /\ Last(rounds) = <<R, P, PLAYER>>
  /\ Len(rounds) = MaxHintRounds

\* C7: for both settings of exclude_ties the rate histories (player,
\* opponent, tie) have one entry per recorded round and every entry lies in
\* the closed interval [0,1].
C7_RatesInUnitInterval ==
  /\ call.op = "win_rate_history" =>
       /\ call.raised = ""
       /\ Len(call.ret) = Len(rounds)
       /\ \A i \in 1..Len(rounds) : InUnitInterval(call.ret[i])
  /\ call.op = "plot_win_rate" =>
       /\ call.raised = ""
       /\ \A h \in {call.ret.hist_p, call.ret.hist_a, call.ret.hist_d} :
            /\ Len(h) = Len(rounds)
            /\ \A i \in 1..Len(rounds) : InUnitInterval(h[i])

C7_Witness ==
  /\ call.op = "plot_win_rate"
  /\ call.args = <<TRUE>>
  /\ Len(rounds) = MaxRounds
  /\ Last(call.ret.hist_p) = <<1, 1>>
  /\ Last(call.ret.hist_a) = <<0, 1>>
  /\ Last(call.ret.hist_d) = <<2, 3>>

\* C8: the log is append-only: a successful record_round appends exactly
\* one round at the end and keeps every earlier round in place, and a
\* failing record_round, counts() and win_rate_history() leave the log as
\* it was.
C8_AppendOnly ==
  [][IF call'.op = "record_round" /\ call'.raised = ""
       THEN /\ Len(rounds') = Len(rounds) + 1
            /\ SubSeq(rounds', 1, Len(rounds)) = rounds
       ELSE rounds' = rounds]_vars

C8_Witness ==
  /\ Recorded
  /\ Len(rounds) = MaxHintRounds
  /\ rounds[1] # rounds[2]

\* C9 as stated: every hint whose cleaned text contains both "win" and "ai"
\* is classified as OpponentWin.
C9_WinAndAiIsOpponent ==
  (/\ call.op = "_normalize_result_string"
   /\ call.ret # Pending
   /\ In(kw_win, Clean(call.args[1]))
   /\ In(kw_ai, Clean(call.args[1])))
  => call.ret = AI

\* C9 amended: a hint whose cleaned text contains both "win" and "ai" is
\* classified as OpponentWin when it contains neither "player" nor "you",
\* and as PlayerWin when it contains one of them.
C9_WinAndAiWithoutPlayerWords ==
  (/\ call.op = "_normalize_result_string"
   /\ call.ret # Pending
   /\ In(kw_win, Clean(call.args[1]))
   /\ In(kw_ai, Clean(call.args[1])))
  => IF In(kw_player, Clean(call.args[1])) \/ In(kw_you, Clean(call.args[1]))
       THEN call.ret = PLAYER
       ELSE call.ret = AI

C9_Witness ==
  /\ call.op = "_normalize_result_string"
  /\ call.ret = AI
  /\ call.args[1] = <<" ", "A">> \o <<"i"," ","w","i","n","s"," ","w","i","n","!">>

\* C10: after any sequence of handle_game_round calls with moves in
\* {R,P,S}, p_score is the player-win count and a_score the opponent-win
\* count of counts(), the three result strings being classified as
\* PlayerWin, OpponentWin and Tie.
C10_ScoresAgreeWithTracker ==
  /\ p_score = PrefixCount(rounds, Len(rounds), PLAYER)
  /\ a_score = PrefixCount(rounds, Len(rounds), AI)
  /\ p_score = CountsOf(rounds)[1]
  /\ a_score = CountsOf(rounds)[2]
  /\ \A i \in 1..Len(rounds) :
       /\ rounds[i][2] = P
       /\ rounds[i][3] = RuleOutcome(rounds[i][1], P)
  /\ display.shown => display.p_score = p_score /\ display.a_score = a_score

C10_Witness ==
  /\ Len(rounds) = MaxGameRounds
  /\ p_score = 2
  /\ a_score = 2
  /\ CountsOf(rounds) = <<2, 2, 1>>
  /\ display.shown

====
